---- MODULE Spec2Model ----
(***************************************************************************)
(* Session orchestration of the research assistant: the start-research,    *)
(* submit-answer and process-research handlers, the background research    *)
(* routine (performResearch) and the session document they share.          *)
(*                                                                         *)
(* Every await of the handlers is a suspension point, so each handler is   *)
(* cut into one action per await-delimited step.  Strings are sequences of *)
(* tokens, optional document fields are sets with at most one element      *)
(* ({} = field absent), timestamps are readings of a logical clock that    *)
(* advances at every store write.                                          *)
(***************************************************************************)
EXTENDS Integers, Sequences, FiniteSets, TLC

VARIABLES store,      \* research_sessions collection: session id -> document
          clock,      \* logical time read by new Date()
          subs,       \* submit-answer requests being served, by arrival number
          submitted,  \* number of submit-answer requests received
          resp,       \* the latest submit-answer response sent
          execs,      \* performResearch executions running, by launch number
          launched,   \* session id -> number of performResearch calls made
          procCalls,  \* number of process-research requests received
          delivered,  \* number of report emails the Notifier accepted
          routine,    \* the performResearch the start and submit handlers call
          startResp,  \* the latest start-research response and the planner
                      \* outcome behind it
          poll,       \* the background-agent poll loop of performGeminiResearch
          dispatch,   \* requests fired at the process-research endpoint
          req         \* the latest request received and its response code

vars == <<store, clock, subs, submitted, resp, execs, launched, procCalls,
          delivered, routine, startResp, poll, dispatch, req>>

----------------------------------------------------------------------------
(* Bounds *)

MaxQuestions == 2   \* the planner returns 0..MaxQuestions questions
MaxAnswers == 2     \* distinct answer texts a client may submit
MaxSubmits == 2     \* submit-answer requests per behaviour
MaxProcess == 1     \* process-research requests per behaviour
MaxExecs == 2       \* performResearch executions per behaviour
MaxPolls == 3       \* maxPolls of the poll loop (120 in the code)
MaxRequests == 3    \* requests received per behaviour of SpecApi

----------------------------------------------------------------------------
(* Values *)

SID == "s1"          \* the id adminDb...doc() assigned to the session
GhostSID == "nosuch" \* an id that names no document

Prompts == {<<"prompt">>}
Answers == {"a" \o ToString(i) : i \in 1..MaxAnswers}
QuestionIds == {"q" \o ToString(i) : i \in 1..(MaxQuestions + 1)}
\* performResearch of lib/research.ts awaits both provider calls together
\* (Promise.all); the route-local performResearch awaits them one by one.
\* The process endpoint calls its route-local one; the start and submit
\* handlers call the one their deployed revision has.
Variants == {"sequential", "parallel"}

Absent == {}
Some(v) == {v}
Present(f) == f # {}

\* ResearchStatus order used by the status claims
Rank(s) ==
  CASE s = "pending" -> 0
    [] s = "refining" -> 1
    [] s = "processing" -> 2
    [] s = "completed" -> 3
    [] s = "email_sent" -> 4
    [] OTHER -> 5

\* getRefinementQuestions: ids q1..qn in response order, answers unset
PlannedQuestions(n) ==
  [i \in 1..n |-> [id |-> "q" \o ToString(i),
                   question |-> "question" \o ToString(i),
                   answer |-> Absent]]

\* what the planner's provider call gave: it rejected (or its reply could
\* not be read), it said NO_REFINEMENT_NEEDED, or it listed numbered questions
PlannerOutcomes ==
  {[kind |-> "error", lines |-> 0], [kind |-> "none", lines |-> 0]} \cup
  {[kind |-> "questions", lines |-> n] : n \in 1..MaxQuestions}

\* the planner asking one stock question when its provider call failed
getRefinementQuestionsStock(o) ==
  IF o.kind = "questions" THEN PlannedQuestions(o.lines)
  ELSE IF o.kind = "error" THEN PlannedQuestions(1)
  ELSE <<>>

\* getRefinementQuestions: the numbered lines of the reply; [] for
\* NO_REFINEMENT_NEEDED and, from the catch block, for any failure
getRefinementQuestions(o) ==
  IF o.kind = "questions" THEN PlannedQuestions(o.lines) ELSE <<>>

RECURSIVE JoinQA(_, _)
\* updatedQuestions.map(q => `Q: ${q.question}\nA: ${q.answer}`).join('\n\n')
JoinQA(qs, i) ==
  IF i > Len(qs) THEN <<>>
  ELSE LET a == IF Present(qs[i].answer)
                THEN CHOOSE x \in qs[i].answer : TRUE
                ELSE "undefined"
           pair == <<"Q: ", qs[i].question, "\nA: ", a>>
       IN IF i = Len(qs) THEN pair
          ELSE pair \o <<"\n\n">> \o JoinQA(qs, i + 1)

\* `${session.initialPrompt}\n\nAdditional context:\n${questionsAndAnswers}`
ComposeRefinedPrompt(initialPrompt, qs) ==
  initialPrompt \o <<"\n\nAdditional context:\n">> \o JoinQA(qs, 1)

\* the answer of an id no question has kept as a question of its own
UpdatedQuestionsAppending(qs, questionId, answer) ==
  LET mapped == [i \in 1..Len(qs) |->
                   IF qs[i].id = questionId
                   THEN [qs[i] EXCEPT !.answer = Some(answer)]
                   ELSE qs[i]]
  IN IF \E i \in 1..Len(qs) : qs[i].id = questionId THEN mapped
     ELSE Append(mapped, [id |-> questionId, question |-> "",
                          answer |-> Some(answer)])

\* session.refinementQuestions.map(q => q.id === questionId ? {...q, answer} : q)
UpdatedQuestions(qs, questionId, answer) ==
  [i \in 1..Len(qs) |->
     IF qs[i].id = questionId THEN [qs[i] EXCEPT !.answer = Some(answer)]
     ELSE qs[i]]

\* "all answered" read off the last question only: a sequence predicate
AllAnsweredLast(qs) == Len(qs) = 0 \/ Present(qs[Len(qs)].answer)

\* updatedQuestions.every(q => q.answer)
AllAnswered(qs) == \A i \in 1..Len(qs) : Present(qs[i].answer)

\* the next question taken from the end of the list instead of the start
NextQuestionLast(qs) ==
  LET open == {i \in 1..Len(qs) : ~Present(qs[i].answer)}
  IN IF open = {} THEN Absent
     ELSE Some(qs[CHOOSE i \in open : \A j \in open : i >= j])

\* updatedQuestions.find(q => !q.answer)
NextQuestion(qs) ==
  LET open == {i \in 1..Len(qs) : ~Present(qs[i].answer)}
  IN IF open = {} THEN Absent
     ELSE Some(qs[CHOOSE i \in open : \A j \in open : i <= j])

----------------------------------------------------------------------------
(* Session Store Gateway *)

Exists(sid) == sid \in DOMAIN store

\* sessionRef.set(session) for a session that still has questions to answer
RefiningSession(prompt, n, now) ==
  [id |-> SID, userId |-> "u1", userEmail |-> "u1@mail",
   initialPrompt |-> prompt, refinedPrompt |-> Absent,
   refinementQuestions |-> PlannedQuestions(n),
   openaiResult |-> Absent, geminiResult |-> Absent,
   status |-> "refining", createdAt |-> now, updatedAt |-> now,
   completedAt |-> Absent, emailSentAt |-> Absent, error |-> Absent]

\* sessionRef.set(session) when the planner asked nothing
ImmediateSession(prompt, now) ==
  [RefiningSession(prompt, 0, now) EXCEPT
     !.refinedPrompt = Some(prompt), !.status = "processing"]

\* sessionRef.update(fields): merge the supplied fields into the document
Merge(doc, fields) ==
  [k \in DOMAIN doc |-> IF k \in DOMAIN fields THEN fields[k] ELSE doc[k]]

AnswersUpdate(qs, now) ==
  [refinementQuestions |-> qs, updatedAt |-> now]

\* the processing update with the composed prompt forgotten
ProcessingUpdateWithoutPrompt(refined, now) ==
  [status |-> "processing", updatedAt |-> now]

\* the processing update storing the composed prompt as the prompt itself
ProcessingUpdateReplacingPrompt(refined, now) ==
  [initialPrompt |-> refined, refinedPrompt |-> Some(refined),
   status |-> "processing", updatedAt |-> now]

ProcessingUpdate(refined, now) ==
  [refinedPrompt |-> Some(refined), status |-> "processing", updatedAt |-> now]

\* the completed update with the second provider's result forgotten
CompletedUpdateWithoutGemini(e, now) ==
  [openaiResult |-> e.openaiResult,
   status |-> "completed", completedAt |-> Some(now), updatedAt |-> now]

\* research.ts:29 - both results travel with status completed
CompletedUpdate(e, now) ==
  [openaiResult |-> e.openaiResult, geminiResult |-> e.geminiResult,
   status |-> "completed", completedAt |-> Some(now), updatedAt |-> now]

\* the email_sent update with the delivery timestamp forgotten
EmailSentUpdateWithoutTime(now) ==
  [status |-> "email_sent", updatedAt |-> now]

\* research.ts:46
EmailSentUpdate(now) ==
  [status |-> "email_sent", emailSentAt |-> Some(now), updatedAt |-> now]

\* the failure update recording a fixed text instead of the caught message
FailedUpdateUnknownError(e, now) ==
  [status |-> "failed", error |-> Some("Unknown error"), updatedAt |-> now]

\* the failure update also saving whatever result had already arrived
FailedUpdateKeepingPartial(e, now) ==
  IF Present(e.openaiResult)
  THEN [status |-> "failed", error |-> e.error, updatedAt |-> now,
        openaiResult |-> e.openaiResult]
  ELSE [status |-> "failed", error |-> e.error, updatedAt |-> now]

\* the failure update with the error field forgotten
FailedUpdateWithoutError(e, now) ==
  [status |-> "failed", updatedAt |-> now]

\* the failure update also wiping what the completed update had stored
FailedUpdateClearingResults(e, now) ==
  [status |-> "failed", error |-> e.error, updatedAt |-> now,
   openaiResult |-> Absent, geminiResult |-> Absent, completedAt |-> Absent]

\* research.ts:57 - the caught error's message travels with status failed
FailedUpdate(e, now) ==
  [status |-> "failed", error |-> e.error, updatedAt |-> now]

----------------------------------------------------------------------------
(* Provider adapters *)

\* completion.choices[0].message.content: the provider's text for the prompt
OpenAIText(prompt) == <<"openai findings for ">> \o prompt

\* response.text / lastOutput.text: the provider's text for the prompt
GeminiText(prompt) == <<"gemini findings for ">> \o prompt

\* a provider call resolves with text or rejects
Outcomes == {"ok", "err"}

OpenAIError == "openai request failed"
GeminiError == "gemini request failed"
ReportError == "report delivery failed"
RenderError == "report rendering failed"
NotFoundError == "NOT_FOUND: no document to update"

----------------------------------------------------------------------------
(* performResearch *)

\* The synchronous prefix of performResearch(sessionId, refinedPrompt): the
\* sequential routine issues the OpenAI call only, the Promise.all routine
\* issues both calls before its first await.
Launch(sid, prompt, variant, origin) ==
  [sid |-> sid, prompt |-> prompt, variant |-> variant, origin |-> origin,
   pc |-> "research",
   openai |-> "inflight",
   gemini |-> IF variant = "parallel" THEN "inflight" ELSE "idle",
   openaiResult |-> Absent, geminiResult |-> Absent,
   error |-> Absent]

\* the running requests or executions f without number i
Remove(f, i) == [j \in DOMAIN f \ {i} |-> f[j]]

\* performResearch i has returned: its locals are gone and a provider call
\* it no longer awaits is detached from it
Finished(i) == Remove(execs, i)

\* executions already launched plus requests that may still launch one
Committed == launched[SID] + launched[GhostSID] + Cardinality(DOMAIN subs)

\* the number the next performResearch call gets
NextExec == launched[SID] + launched[GhostSID] + 1

\* performResearch(sid, prompt) is called
Launched(sid) == [launched EXCEPT ![sid] = @ + 1]

\* the OpenAI call of execution i settles
OpenAISettle(i, outcome) ==
  /\ i \in DOMAIN execs
  /\ execs[i].openai = "inflight"
  /\ LET e == execs[i]
         failed == outcome = "err"
         e1 == [e EXCEPT !.openai = IF failed THEN "err" ELSE "ok",
                         !.openaiResult =
                            IF failed THEN Absent
                            ELSE Some(OpenAIText(e.prompt))]
         e2 == IF e.pc # "research" THEN e1
               ELSE IF failed
                    THEN [e1 EXCEPT !.pc = "write_failed",
                                    !.error = Some(OpenAIError)]
               ELSE IF e.variant = "sequential"
                    THEN [e1 EXCEPT !.gemini = "inflight"]
               ELSE IF e.gemini = "ok"
                    THEN [e1 EXCEPT !.pc = "write_completed"]
               ELSE e1
     IN execs' = [execs EXCEPT ![i] = e2]
  /\ UNCHANGED <<store, clock, subs, submitted, resp, launched, procCalls,
               delivered, routine, req, startResp, poll, dispatch>>

\* the Gemini call of execution i settles
GeminiSettle(i, outcome) ==
  /\ i \in DOMAIN execs
  /\ execs[i].gemini = "inflight"
  /\ LET e == execs[i]
         failed == outcome = "err"
         e1 == [e EXCEPT !.gemini = IF failed THEN "err" ELSE "ok",
                         !.geminiResult =
                            IF failed THEN Absent
                            ELSE Some(GeminiText(e.prompt))]
         e2 == IF e.pc # "research" THEN e1
               ELSE IF failed
                    THEN [e1 EXCEPT !.pc = "write_failed",
                                    !.error = Some(GeminiError)]
               ELSE IF e.openai = "ok"
                    THEN [e1 EXCEPT !.pc = "write_completed"]
               ELSE e1
     IN execs' = [execs EXCEPT ![i] = e2]
  /\ UNCHANGED <<store, clock, subs, submitted, resp, launched, procCalls,
               delivered, routine, req, startResp, poll, dispatch>>

\* await sessionRef.update({openaiResult, geminiResult, status: 'completed', ...})
ExecWriteCompleted(i) ==
  /\ i \in DOMAIN execs
  /\ execs[i].pc = "write_completed"
  /\ LET e == execs[i]
     IN IF Exists(e.sid)
        THEN /\ store' = [store EXCEPT
                            ![e.sid] = Merge(@, CompletedUpdate(e, clock))]
             /\ clock' = clock + 1
             /\ execs' = [execs EXCEPT ![i].pc = "report"]
        ELSE \* update() of a missing document rejects; caught at line 53
             /\ execs' = [execs EXCEPT ![i].pc = "write_failed",
                                       ![i].error = Some(NotFoundError)]
             /\ UNCHANGED <<store, clock>>
  /\ UNCHANGED <<subs, submitted, resp, launched, procCalls, delivered, routine, req,
                 startResp, poll, dispatch>>

ReportOutcomes == {"sent", "render_failed", "send_failed"}

\* the report step going on to the email_sent write whatever the outcome
ExecReportIgnoringFailure(i, outcome) ==
  /\ i \in DOMAIN execs
  /\ execs[i].pc = "report"
  /\ execs' = [execs EXCEPT ![i].pc = "write_email_sent"]
  /\ delivered' = IF outcome = "sent" THEN delivered + 1 ELSE delivered
  /\ UNCHANGED <<store, clock, subs, submitted, resp, launched, procCalls, routine, req,
                 startResp, poll, dispatch>>

\* session = (await sessionRef.get()).data();
\* await generateAndEmailReport(session)
ExecReport(i, outcome) ==
  /\ i \in DOMAIN execs
  /\ execs[i].pc = "report"
  /\ IF outcome = "sent"
     THEN /\ execs' = [execs EXCEPT ![i].pc = "write_email_sent"]
          /\ delivered' = delivered + 1
     ELSE /\ execs' = [execs EXCEPT
                         ![i].pc = "write_failed",
                         ![i].error = Some(IF outcome = "render_failed"
                                           THEN RenderError ELSE ReportError)]
          /\ UNCHANGED delivered
  /\ UNCHANGED <<store, clock, subs, submitted, resp, launched, procCalls, routine, req,
                 startResp, poll, dispatch>>

\* await sessionRef.update({status: 'email_sent', emailSentAt, updatedAt})
ExecWriteEmailSent(i) ==
  /\ i \in DOMAIN execs
  /\ execs[i].pc = "write_email_sent"
  /\ store' = [store EXCEPT
                 ![execs[i].sid] = Merge(@, EmailSentUpdate(clock))]
  /\ clock' = clock + 1
  /\ execs' = Finished(i)
  /\ UNCHANGED <<subs, submitted, resp, launched, procCalls, delivered, routine, req,
                 startResp, poll, dispatch>>

\* a catch block that only logs the error
ExecWriteFailedSkipped(i) ==
  /\ i \in DOMAIN execs
  /\ execs[i].pc = "write_failed"
  /\ execs' = Finished(i)
  /\ UNCHANGED <<store, clock, subs, submitted, resp, launched, procCalls,
                 delivered, routine, req, startResp, poll, dispatch>>

\* catch (error) { try { await sessionRef.update({status: 'failed', error, ...}) }
\*                 catch (updateError) { console.error(...) } }
ExecWriteFailed(i) ==
  /\ i \in DOMAIN execs
  /\ execs[i].pc = "write_failed"
  /\ LET e == execs[i]
     IN IF Exists(e.sid)
        THEN /\ store' = [store EXCEPT
                            ![e.sid] = Merge(@, FailedUpdate(e, clock))]
             /\ clock' = clock + 1
        ELSE UNCHANGED <<store, clock>>
  /\ execs' = Finished(i)
  /\ UNCHANGED <<subs, submitted, resp, launched, procCalls, delivered, routine, req,
                 startResp, poll, dispatch>>

----------------------------------------------------------------------------
(* POST /api/research *)

\* With zero questions the handler that has its own performResearch calls it
\* after sessionRef.set; the handler that imports performResearch from
\* lib/research.ts returns right after sessionRef.set without calling it.
StartLaunches == routine = "sequential"

\* Start research: the planner returned n questions for the prompt.
StartResearch(prompt, n) ==
  /\ ~Exists(SID)
  /\ Committed < MaxExecs
  /\ IF n = 0
     THEN /\ store' = (SID :> ImmediateSession(prompt, clock))
          /\ IF StartLaunches
             THEN /\ execs' = execs @@
                               (NextExec :> Launch(SID, prompt, routine, "start"))
                  /\ launched' = Launched(SID)
             ELSE UNCHANGED <<execs, launched>>
     ELSE /\ store' = (SID :> RefiningSession(prompt, n, clock))
          /\ UNCHANGED <<execs, launched>>
  /\ clock' = clock + 1
  /\ UNCHANGED <<subs, submitted, resp, procCalls, delivered, routine,
                 poll, dispatch>>

NoStartResponse == [planner |-> "", code |-> 0, status |-> ""]

\* POST /api/research past its validation, for a prompt whose planner call
\* had outcome o: the session is created from getRefinementQuestions' result
\* and the response carries the session's status.
StartSession(prompt, o) ==
  LET n == Len(getRefinementQuestions(o))
  IN /\ StartResearch(prompt, n)
     /\ startResp' = [planner |-> o.kind, code |-> 200,
                      status |-> IF n = 0 THEN "processing" ELSE "refining"]

\* a well-formed start-research request
StartResearchPlanned(prompt, o) == StartSession(prompt, o) /\ UNCHANGED req

----------------------------------------------------------------------------
(* POST /api/refinement *)

NoResponse ==
  [code |-> 0, status |-> Absent, nextQuestion |-> Absent,
   refinedPrompt |-> Absent]

\* the lookup going on with an empty session when the document is missing
SubmitLookupUnchecked(sid, questionId, answer) ==
  /\ submitted < MaxSubmits
  /\ Committed < MaxExecs
  /\ sid = SID => Exists(SID)
  /\ submitted' = submitted + 1
  /\ subs' = subs @@ (submitted + 1 :>
               [sid |-> sid, pc |-> "write_answers",
                updatedQuestions |->
                   IF Exists(sid)
                   THEN UpdatedQuestions(store[sid].refinementQuestions,
                                         questionId, answer)
                   ELSE <<>>,
                initialPrompt |-> IF Exists(sid) THEN store[sid].initialPrompt
                                  ELSE <<>>])
  /\ UNCHANGED resp
  /\ UNCHANGED <<store, clock, execs, launched, procCalls, delivered, routine,
                 startResp, poll, dispatch>>

\* sessionRef.get() of a request that passed validation, the 404 response
\* when the document does not exist, and updatedQuestions otherwise
SubmitLookup(sid, questionId, answer) ==
  /\ submitted < MaxSubmits
  /\ Committed < MaxExecs
  /\ sid = SID => Exists(SID)
  /\ submitted' = submitted + 1
  /\ IF ~Exists(sid)
     THEN /\ resp' = [NoResponse EXCEPT !.code = 404]
          /\ UNCHANGED subs
     ELSE /\ subs' = subs @@ (submitted + 1 :>
                       [sid |-> sid, pc |-> "write_answers",
                        updatedQuestions |->
                           UpdatedQuestions(store[sid].refinementQuestions,
                                            questionId, answer),
                        initialPrompt |-> store[sid].initialPrompt])
          /\ UNCHANGED resp
  /\ UNCHANGED <<store, clock, execs, launched, procCalls, delivered, routine,
                 startResp, poll, dispatch>>

\* a well-formed submit-answer request arrives and reads the session
SubmitRead(sid, questionId, answer) ==
  SubmitLookup(sid, questionId, answer) /\ UNCHANGED req

\* await sessionRef.update({refinementQuestions: updatedQuestions, updatedAt})
\* and, when a question is still open, the 'refining' response.
SubmitWriteAnswers(r) ==
  /\ r \in DOMAIN subs
  /\ subs[r].pc = "write_answers"
  /\ LET q == subs[r]
     IN /\ store' = [store EXCEPT
                       ![q.sid] = Merge(@, AnswersUpdate(q.updatedQuestions, clock))]
        /\ clock' = clock + 1
        /\ IF AllAnswered(q.updatedQuestions)
           THEN /\ subs' = [subs EXCEPT ![r].pc = "write_processing"]
                /\ UNCHANGED resp
           ELSE /\ subs' = Remove(subs, r)
                /\ resp' = [code |-> 200,
                            status |-> Some("refining"),
                            nextQuestion |-> NextQuestion(q.updatedQuestions),
                            refinedPrompt |-> Absent]
  /\ UNCHANGED <<submitted, execs, launched, procCalls, delivered, routine, req,
                 startResp, poll, dispatch>>

\* await sessionRef.update({refinedPrompt, status: 'processing', updatedAt});
\* performResearch(sessionId, refinedPrompt); the 'processing' response.
SubmitWriteProcessing(r) ==
  /\ r \in DOMAIN subs
  /\ subs[r].pc = "write_processing"
  /\ LET q == subs[r]
         refined == ComposeRefinedPrompt(q.initialPrompt, q.updatedQuestions)
     IN /\ store' = [store EXCEPT
                       ![q.sid] = Merge(@, ProcessingUpdate(refined, clock))]
        /\ clock' = clock + 1
        /\ execs' = execs @@
                      (NextExec :> Launch(q.sid, refined, routine, "submit"))
        /\ launched' = Launched(q.sid)
        /\ subs' = Remove(subs, r)
        /\ resp' = [code |-> 200,
                    status |-> Some("processing"),
                    nextQuestion |-> Absent,
                    refinedPrompt |-> Some(refined)]
  /\ UNCHANGED <<submitted, procCalls, delivered, routine, req,
                 startResp, poll, dispatch>>

----------------------------------------------------------------------------
(* POST /api/process-research *)

\* The endpoint runs the route-local routine for whatever session id and
\* prompt the body carries.
ProcessRun(sid, prompt) ==
  /\ procCalls < MaxProcess
  /\ Committed < MaxExecs
  /\ sid = SID => Exists(SID)
  /\ procCalls' = procCalls + 1
  /\ execs' = execs @@ (NextExec :> Launch(sid, prompt, "sequential", "process"))
  /\ launched' = Launched(sid)
  /\ UNCHANGED <<store, clock, subs, submitted, resp, delivered, routine,
                 startResp, poll, dispatch>>

\* a process-research request carrying both fields
ProcessCall(sid, prompt) == ProcessRun(sid, prompt) /\ UNCHANGED req

\* prompts a caller of the endpoint may send
ProcessPrompts ==
  Prompts \cup (IF Exists(SID) THEN store[SID].refinedPrompt ELSE {})

----------------------------------------------------------------------------
(* performGeminiResearch of lib/research.ts: the background-agent poll loop *)

InteractionStatuses ==
  {"in_progress", "requires_action", "completed", "failed", "cancelled"}

\* what interactions.create / interactions.get resolve with: the status and
\* the text of the last output ({} = no output, or a last output without text)
Snapshots(prompt) ==
  [status : InteractionStatuses,
   text : {Absent, Some(<<>>), Some(GeminiText(prompt))}]

NoSnapshot == [status |-> "", text |-> Absent]

\* no execution is inside the poll loop
IdlePoll ==
  [pc |-> "idle", exec |-> 0, count |-> 0, last |-> NoSnapshot, result |-> <<>>]

NoResponseText == <<"No response from Gemini deep research agent">>

\* research.ts:131-140: result = lastOutput.text || '';
\* return result || 'No response from Gemini deep research agent'
PollResult(snap) ==
  LET result == IF Present(snap.text) THEN CHOOSE t \in snap.text : TRUE
                ELSE <<>>
  IN IF result # <<>> THEN result ELSE NoResponseText

\* the Gemini call of the execution that runs the poll loop settles: the
\* continuation of Promise.all in performResearch
PollSettled(failed, text) ==
  IF poll.exec \notin DOMAIN execs THEN execs
  ELSE LET e == execs[poll.exec]
           e1 == [e EXCEPT !.gemini = IF failed THEN "err" ELSE "ok",
                           !.geminiResult = IF failed THEN Absent ELSE Some(text)]
           e2 == IF e.pc # "research" THEN e1
                 ELSE IF failed
                      THEN [e1 EXCEPT !.pc = "write_failed",
                                      !.error = Some(GeminiError)]
                 ELSE IF e.openai = "ok"
                      THEN [e1 EXCEPT !.pc = "write_completed"]
                 ELSE e1
       IN [execs EXCEPT ![poll.exec] = e2]

\* performGeminiResearch returns PollResult of the last snapshot it holds
PollReturns(snap, count) ==
  /\ poll' = [poll EXCEPT !.pc = "returned", !.count = count, !.last = snap,
                          !.result = PollResult(snap)]
  /\ execs' = PollSettled(FALSE, PollResult(snap))

\* the catch block of performGeminiResearch rethrows
PollThrows ==
  /\ poll' = [poll EXCEPT !.pc = "threw"]
  /\ execs' = PollSettled(TRUE, <<>>)

\* research.ts:94-98: gemini.interactions.create for the Gemini call of
\* execution i of the lib routine settles
PollCreate(i, outcome, snap) ==
  /\ poll.pc = "idle"
  /\ i \in DOMAIN execs
  /\ execs[i].variant = "parallel"
  /\ execs[i].gemini = "inflight"
  /\ IF outcome = "err"
     THEN /\ poll' = [IdlePoll EXCEPT !.pc = "threw", !.exec = i]
          /\ execs' = [execs EXCEPT ![i] =
                         IF @.pc = "research"
                         THEN [@ EXCEPT !.gemini = "err", !.pc = "write_failed",
                                        !.error = Some(GeminiError)]
                         ELSE [@ EXCEPT !.gemini = "err"]]
     ELSE /\ poll' = [IdlePoll EXCEPT !.pc = "getting", !.exec = i, !.last = snap]
          /\ UNCHANGED execs
  /\ UNCHANGED <<store, clock, subs, submitted, resp, launched, procCalls,
                 delivered, routine, req, startResp, dispatch>>

\* research.ts:107-125: one gemini.interactions.get of the loop settles
PollGet(outcome, snap) ==
  /\ poll.pc = "getting"
  /\ IF outcome = "err" THEN PollThrows
     ELSE IF snap.status \in {"failed", "cancelled"}
          THEN PollReturns(snap, poll.count)
     ELSE IF snap.status \in {"in_progress", "requires_action"}
          THEN /\ poll' = [poll EXCEPT !.pc = "waiting", !.last = snap]
               /\ UNCHANGED execs
     ELSE PollReturns(snap, poll.count)
  /\ UNCHANGED <<store, clock, subs, submitted, resp, launched, procCalls,
                 delivered, routine, req, startResp, dispatch>>

\* the wait that counts rounds without ever giving up
PollWaitForever ==
  /\ poll.pc = "waiting"
  /\ poll' = [poll EXCEPT !.pc = "getting"]
  /\ UNCHANGED <<store, clock, subs, submitted, resp, execs, launched,
                 procCalls, delivered, routine, req, startResp, dispatch>>

\* research.ts:117-121 and 107: the 5 s timer fires, pollCount++, and the
\* loop condition pollCount < maxPolls is tested again
PollWait ==
  /\ poll.pc = "waiting"
  /\ IF poll.count + 1 < MaxPolls
     THEN /\ poll' = [poll EXCEPT !.pc = "getting", !.count = @ + 1]
          /\ UNCHANGED execs
     ELSE PollReturns(poll.last, poll.count + 1)
  /\ UNCHANGED <<store, clock, subs, submitted, resp, launched, procCalls,
                 delivered, routine, req, startResp, dispatch>>

----------------------------------------------------------------------------
(* triggerResearchWebhook: the re-entrant resume strategy *)

\* no request has been fired at the process-research endpoint
NoDispatch == [inflight |-> <<>>, sent |-> 0, failed |-> 0]

\* part_000:53-73 on a platform without waitUntil: the processing update,
\* then triggerResearchWebhook fires its fetch without awaiting it, then
\* the 'processing' response
SubmitWriteProcessingWebhook(r) ==
  /\ r \in DOMAIN subs
  /\ subs[r].pc = "write_processing"
  /\ LET q == subs[r]
         refined == ComposeRefinedPrompt(q.initialPrompt, q.updatedQuestions)
     IN /\ store' = [store EXCEPT
                       ![q.sid] = Merge(@, ProcessingUpdate(refined, clock))]
        /\ clock' = clock + 1
        /\ dispatch' = [dispatch EXCEPT
                          !.inflight = @ @@ (dispatch.sent + 1 :>
                                              [sid |-> q.sid, prompt |-> refined]),
                          !.sent = @ + 1]
        /\ subs' = Remove(subs, r)
        /\ resp' = [code |-> 200,
                    status |-> Some("processing"),
                    nextQuestion |-> Absent,
                    refinedPrompt |-> Some(refined)]
  /\ UNCHANGED <<submitted, execs, launched, procCalls, delivered, routine, req,
                 startResp, poll>>

\* the fetch reaches POST /api/process-research, which calls its
\* performResearch with the body's sessionId and prompt
DispatchArrives(d) ==
  /\ d \in DOMAIN dispatch.inflight
  /\ launched[SID] + launched[GhostSID] < MaxExecs
  /\ dispatch' = [dispatch EXCEPT !.inflight = Remove(@, d)]
  /\ execs' = execs @@
                (NextExec :> Launch(dispatch.inflight[d].sid,
                                    dispatch.inflight[d].prompt,
                                    "sequential", "webhook"))
  /\ launched' = Launched(dispatch.inflight[d].sid)
  /\ UNCHANGED <<store, clock, subs, submitted, resp, procCalls, delivered,
                 routine, req, startResp, poll>>

\* the failed fetch fired once more
DispatchFailsRetry(d) ==
  /\ d \in DOMAIN dispatch.inflight
  /\ dispatch.failed < MaxSubmits
  /\ dispatch' = [dispatch EXCEPT !.failed = @ + 1]
  /\ UNCHANGED <<store, clock, subs, submitted, resp, execs, launched,
                 procCalls, delivered, routine, req, startResp, poll>>

\* part_000:171-178: the fetch rejects; .catch logs the error
DispatchFails(d) ==
  /\ d \in DOMAIN dispatch.inflight
  /\ dispatch' = [dispatch EXCEPT !.inflight = Remove(@, d),
                          !.failed = @ + 1]
  /\ UNCHANGED <<store, clock, subs, submitted, resp, execs, launched,
                 procCalls, delivered, routine, req, startResp, poll>>

----------------------------------------------------------------------------
(* The requests as the route handlers receive them *)

\* a body field, header or query parameter that was not supplied
\* (undefined / null) is {}; a supplied one is {value}.  code is the status
\* of the response, 0 while the handler has not responded yet
NoRequest ==
  [n |-> 0, op |-> "", code |-> 0,
   userId |-> Absent, userEmail |-> Absent, prompt |-> Absent,
   sessionId |-> Absent, questionId |-> Absent, answer |-> Absent]

\* !x for a string: undefined, null and '' are falsy
Falsy(x) == x = Absent \/ x = Some("")

\* !x for a text kept as a token sequence
FalsyText(x) == x = Absent \/ x = Some(<<>>)

Value(x) == CHOOSE v \in x : TRUE

Whitespace == {" ", "\n", "\n\n"}

RECURSIVE TrimStart(_)
TrimStart(s) ==
  IF s # <<>> /\ Head(s) \in Whitespace THEN TrimStart(Tail(s)) ELSE s

RECURSIVE TrimEnd(_)
TrimEnd(s) ==
  IF s # <<>> /\ s[Len(s)] \in Whitespace
  THEN TrimEnd(SubSeq(s, 1, Len(s) - 1)) ELSE s

\* String.prototype.trim
Trim(s) == TrimEnd(TrimStart(s))

Received(op) == [NoRequest EXCEPT !.n = req.n + 1, !.op = op]

\* research/route.ts:167-175 with the blank-prompt test left out
StartRejectionNoTrim(userId, userEmail, prompt) ==
  IF Falsy(userId) \/ Falsy(userEmail) THEN 401
  ELSE IF FalsyText(prompt) THEN 400
  ELSE 0

\* research/route.ts:167-175: the status of the early return, 0 if none
StartRejection(userId, userEmail, prompt) ==
  IF Falsy(userId) \/ Falsy(userEmail) THEN 401
  ELSE IF FalsyText(prompt) \/ Len(Trim(Value(prompt))) = 0 THEN 400
  ELSE 0

\* POST /api/research
StartRequest(userId, userEmail, prompt, o) ==
  /\ req.n < MaxRequests
  /\ LET code == StartRejection(userId, userEmail, prompt)
         r == [Received("start") EXCEPT !.userId = userId,
                                        !.userEmail = userEmail,
                                        !.prompt = prompt]
     IN IF code # 0
        THEN /\ req' = [r EXCEPT !.code = code]
             /\ startResp' = [planner |-> "", code |-> code, status |-> ""]
             /\ UNCHANGED <<store, clock, subs, submitted, resp, execs,
                            launched, procCalls, delivered, routine, poll,
                            dispatch>>
        ELSE /\ StartSession(Value(prompt), o)
             /\ req' = [r EXCEPT !.code = 200]

\* refinement/route.ts:20-22: the status of the early return, 0 if none
SubmitRejection(sessionId, questionId, answer) ==
  IF Falsy(sessionId) \/ Falsy(questionId) \/ Falsy(answer) THEN 400 ELSE 0

\* POST /api/refinement
SubmitRequest(sessionId, questionId, answer) ==
  /\ req.n < MaxRequests
  /\ LET code == SubmitRejection(sessionId, questionId, answer)
         r == [Received("submit") EXCEPT !.sessionId = sessionId,
                                         !.questionId = questionId,
                                         !.answer = answer]
     IN IF code # 0
        THEN /\ req' = [r EXCEPT !.code = code]
             /\ resp' = [NoResponse EXCEPT !.code = code]
             /\ UNCHANGED <<store, clock, subs, submitted, execs, launched,
                            procCalls, delivered, routine, startResp, poll,
                            dispatch>>
        ELSE /\ SubmitLookup(Value(sessionId), Value(questionId),
                             Value(answer))
             /\ req' = [r EXCEPT !.code = IF Exists(Value(sessionId))
                                          THEN 0 ELSE 404]

\* GET /api/results: 400 without sessionId, 404 for an unknown session,
\* otherwise the stored status and results
FetchResults(sessionId) ==
  /\ req.n < MaxRequests
  /\ req' = [Received("fetch") EXCEPT
               !.sessionId = sessionId,
               !.code = IF Falsy(sessionId) THEN 400
                        ELSE IF ~Exists(Value(sessionId)) THEN 404
                        ELSE 200]
  /\ UNCHANGED <<store, clock, subs, submitted, resp, execs, launched,
                 procCalls, delivered, routine, startResp, poll, dispatch>>

\* POST /api/process-research: 400 without sessionId or prompt, otherwise
\* performResearch(sessionId, prompt)
ProcessRequest(sessionId, prompt) ==
  /\ req.n < MaxRequests
  /\ LET r == [Received("process") EXCEPT !.sessionId = sessionId,
                                          !.prompt = prompt]
     IN IF Falsy(sessionId) \/ FalsyText(prompt)
        THEN /\ req' = [r EXCEPT !.code = 400]
             /\ UNCHANGED <<store, clock, subs, submitted, resp, execs,
                            launched, procCalls, delivered, routine,
                            startResp, poll, dispatch>>
        ELSE /\ ProcessRun(Value(sessionId), Value(prompt))
             /\ req' = r

----------------------------------------------------------------------------

Init ==
  /\ store = <<>>
  /\ clock = 1
  /\ subs = <<>>
  /\ submitted = 0
  /\ resp = NoResponse
  /\ execs = <<>>
  /\ launched = (SID :> 0) @@ (GhostSID :> 0)
  /\ procCalls = 0
  /\ delivered = 0
  /\ routine \in Variants
  /\ startResp = NoStartResponse
  /\ poll = IdlePoll
  /\ dispatch = NoDispatch
  /\ req = NoRequest

Next ==
  \/ \E p \in Prompts, o \in PlannerOutcomes : StartResearchPlanned(p, o)
  \/ \E sid \in {SID, GhostSID}, qid \in QuestionIds, a \in Answers :
       SubmitRead(sid, qid, a)
  \/ \E r \in DOMAIN subs : SubmitWriteAnswers(r)
  \/ \E r \in DOMAIN subs : SubmitWriteProcessing(r)
  \/ \E sid \in {SID, GhostSID}, p \in ProcessPrompts : ProcessCall(sid, p)
  \/ \E i \in DOMAIN execs, o \in Outcomes : OpenAISettle(i, o)
  \/ \E i \in DOMAIN execs, o \in Outcomes : GeminiSettle(i, o)
  \/ \E i \in DOMAIN execs : ExecWriteCompleted(i)
  \/ \E i \in DOMAIN execs, o \in ReportOutcomes : ExecReport(i, o)
  \/ \E i \in DOMAIN execs : ExecWriteEmailSent(i)
  \/ \E i \in DOMAIN execs : ExecWriteFailed(i)

Spec == Init /\ [][Next]_vars

----------------------------------------------------------------------------
(* performResearch with store updates that reject *)

StoreError == "store update failed"

\* sessionRef.update({..., status: 'completed'}) rejects: control passes to
\* the catch block with the store's error
ExecWriteCompletedRejected(i) ==
  /\ i \in DOMAIN execs
  /\ execs[i].pc = "write_completed"
  /\ Exists(execs[i].sid)
  /\ execs' = [execs EXCEPT ![i].pc = "write_failed",
                            ![i].error = Some(StoreError)]
  /\ UNCHANGED <<store, clock, subs, submitted, resp, launched, procCalls,
                 delivered, routine, req, startResp, poll, dispatch>>

\* sessionRef.update({status: 'email_sent', ...}) rejects
ExecWriteEmailSentRejected(i) ==
  /\ i \in DOMAIN execs
  /\ execs[i].pc = "write_email_sent"
  /\ execs' = [execs EXCEPT ![i].pc = "write_failed",
                            ![i].error = Some(StoreError)]
  /\ UNCHANGED <<store, clock, subs, submitted, resp, launched, procCalls,
                 delivered, routine, req, startResp, poll, dispatch>>

\* The one-by-one routines and performResearch of lib/research.ts put the
\* failure update in a try/catch of its own; the earlier Promise.all
\* routines (research/route.ts:128-135) await it bare inside the catch block.
FailureWriteGuards(e) ==
  IF e.variant = "sequential" THEN {TRUE} ELSE {TRUE, FALSE}

\* sessionRef.update({status: 'failed', ...}) rejects: a guarded routine
\* logs and returns; from an unguarded one the rejection leaves
\* performResearch, whose promise nobody awaits
ExecWriteFailedRejected(i, guarded) ==
  /\ i \in DOMAIN execs
  /\ execs[i].pc = "write_failed"
  /\ Exists(execs[i].sid)
  /\ guarded \in FailureWriteGuards(execs[i])
  /\ execs' = IF guarded THEN Finished(i)
              ELSE [execs EXCEPT ![i].pc = "unhandled_rejection"]
  /\ UNCHANGED <<store, clock, subs, submitted, resp, launched, procCalls,
                 delivered, routine, req, startResp, poll, dispatch>>

NextStore ==
  \/ Next
  \/ \E i \in DOMAIN execs : ExecWriteCompletedRejected(i)
  \/ \E i \in DOMAIN execs : ExecWriteEmailSentRejected(i)
  \/ \E i \in DOMAIN execs, g \in BOOLEAN : ExecWriteFailedRejected(i, g)

SpecStore == Init /\ [][NextStore]_vars

----------------------------------------------------------------------------
(* One client answering each question once, one request after another *)

\* a submit-answer for a question of the session that has no answer yet,
\* sent when no other submit-answer is being served
SerialSubmit(questionId, answer) ==
  /\ subs = <<>>
  /\ Exists(SID)
  /\ \E k \in DOMAIN store[SID].refinementQuestions :
        /\ store[SID].refinementQuestions[k].id = questionId
        /\ ~Present(store[SID].refinementQuestions[k].answer)
  /\ SubmitRead(SID, questionId, answer)

NextSerial ==
  \/ \E p \in Prompts, o \in PlannerOutcomes : StartResearchPlanned(p, o)
  \/ \E qid \in QuestionIds, a \in Answers : SerialSubmit(qid, a)
  \/ \E r \in DOMAIN subs : SubmitWriteAnswers(r)
  \/ \E r \in DOMAIN subs : SubmitWriteProcessing(r)
  \/ \E i \in DOMAIN execs, o \in Outcomes : OpenAISettle(i, o)
  \/ \E i \in DOMAIN execs, o \in Outcomes : GeminiSettle(i, o)
  \/ \E i \in DOMAIN execs : ExecWriteCompleted(i)
  \/ \E i \in DOMAIN execs, o \in ReportOutcomes : ExecReport(i, o)
  \/ \E i \in DOMAIN execs : ExecWriteEmailSent(i)
  \/ \E i \in DOMAIN execs : ExecWriteFailed(i)

SpecSerial == Init /\ [][NextSerial]_vars

----------------------------------------------------------------------------
(* One client and the handlers built on lib/research.ts, whose Gemini call *)
(* is the poll loop                                                         *)

InitPoll == Init /\ routine = "parallel"

NextPoll ==
  \/ \E p \in Prompts, o \in PlannerOutcomes : StartResearchPlanned(p, o)
  \/ \E qid \in QuestionIds, a \in Answers : SerialSubmit(qid, a)
  \/ \E r \in DOMAIN subs : SubmitWriteAnswers(r)
  \/ \E r \in DOMAIN subs : SubmitWriteProcessing(r)
  \/ \E i \in DOMAIN execs, o \in Outcomes : OpenAISettle(i, o)
  \/ \E i \in DOMAIN execs, o \in Outcomes :
       \E s \in Snapshots(execs[i].prompt) : PollCreate(i, o, s)
  \/ \E o \in Outcomes :
       \E s \in Snapshots(IF poll.exec \in DOMAIN execs
                          THEN execs[poll.exec].prompt ELSE <<>>) :
         PollGet(o, s)
  \/ PollWait
  \/ \E i \in DOMAIN execs : ExecWriteCompleted(i)
  \/ \E i \in DOMAIN execs, o \in ReportOutcomes : ExecReport(i, o)
  \/ \E i \in DOMAIN execs : ExecWriteEmailSent(i)
  \/ \E i \in DOMAIN execs : ExecWriteFailed(i)

SpecPoll == InitPoll /\ [][NextPoll]_vars

\* every interactions.get settles and every 5 s timer fires
SpecPollFair ==
  /\ SpecPoll
  /\ WF_vars(\E o \in Outcomes :
               \E s \in Snapshots(IF poll.exec \in DOMAIN execs
                                  THEN execs[poll.exec].prompt ELSE <<>>) :
                 PollGet(o, s))
  /\ WF_vars(PollWait)

\* every provider call, poll, timer, render, send and store write of an
\* execution returns
SpecPollLive ==
  /\ SpecPollFair
  /\ WF_vars(\E i \in DOMAIN execs, o \in Outcomes : OpenAISettle(i, o))
  /\ WF_vars(\E i \in DOMAIN execs, o \in Outcomes :
               \E s \in Snapshots(execs[i].prompt) : PollCreate(i, o, s))
  /\ WF_vars(\E i \in DOMAIN execs : ExecWriteCompleted(i))
  /\ WF_vars(\E i \in DOMAIN execs, o \in ReportOutcomes : ExecReport(i, o))
  /\ WF_vars(\E i \in DOMAIN execs : ExecWriteEmailSent(i))
  /\ WF_vars(\E i \in DOMAIN execs : ExecWriteFailed(i))

----------------------------------------------------------------------------
(* The submit handler with the re-entrant resume strategy *)

InitDispatch == Init /\ routine = "sequential"

NextDispatch ==
  \/ \E p \in Prompts, o \in PlannerOutcomes : StartResearchPlanned(p, o)
  \/ \E sid \in {SID, GhostSID}, qid \in QuestionIds, a \in Answers :
       SubmitRead(sid, qid, a)
  \/ \E r \in DOMAIN subs : SubmitWriteAnswers(r)
  \/ \E r \in DOMAIN subs : SubmitWriteProcessingWebhook(r)
  \/ \E d \in DOMAIN dispatch.inflight : DispatchArrives(d)
  \/ \E d \in DOMAIN dispatch.inflight : DispatchFails(d)
  \/ \E i \in DOMAIN execs, o \in Outcomes : OpenAISettle(i, o)
  \/ \E i \in DOMAIN execs, o \in Outcomes : GeminiSettle(i, o)
  \/ \E i \in DOMAIN execs : ExecWriteCompleted(i)
  \/ \E i \in DOMAIN execs, o \in ReportOutcomes : ExecReport(i, o)
  \/ \E i \in DOMAIN execs : ExecWriteEmailSent(i)
  \/ \E i \in DOMAIN execs : ExecWriteFailed(i)

SpecDispatch == InitDispatch /\ [][NextDispatch]_vars

----------------------------------------------------------------------------
(* The four endpoints with whatever a client may send *)

UserIdInputs == {Absent, Some(""), Some("u1")}
UserEmailInputs == {Absent, Some("u1@mail")}
PromptInputs == {Absent, Some(<<>>), Some(<<" ">>)} \cup {Some(p) : p \in Prompts}
SessionIdInputs == {Absent, Some(""), Some(SID), Some(GhostSID)}
QuestionIdInputs == {Absent} \cup {Some(q) : q \in QuestionIds}
AnswerInputs == {Absent, Some("")} \cup {Some(a) : a \in Answers}
ProcessPromptInputs == {Absent, Some(<<>>)} \cup {Some(p) : p \in ProcessPrompts}

NextApi ==
  \/ \E u \in UserIdInputs, m \in UserEmailInputs, p \in PromptInputs,
        o \in PlannerOutcomes : StartRequest(u, m, p, o)
  \/ \E s \in SessionIdInputs, q \in QuestionIdInputs, a \in AnswerInputs :
       SubmitRequest(s, q, a)
  \/ \E s \in SessionIdInputs : FetchResults(s)
  \/ \E s \in SessionIdInputs, p \in ProcessPromptInputs :
       ProcessRequest(s, p)
  \/ \E r \in DOMAIN subs : SubmitWriteAnswers(r)
  \/ \E r \in DOMAIN subs : SubmitWriteProcessing(r)
  \/ \E i \in DOMAIN execs, o \in Outcomes : OpenAISettle(i, o)
  \/ \E i \in DOMAIN execs, o \in Outcomes : GeminiSettle(i, o)
  \/ \E i \in DOMAIN execs : ExecWriteCompleted(i)
  \/ \E i \in DOMAIN execs, o \in ReportOutcomes : ExecReport(i, o)
  \/ \E i \in DOMAIN execs : ExecWriteEmailSent(i)
  \/ \E i \in DOMAIN execs : ExecWriteFailed(i)

SpecApi == Init /\ [][NextApi]_vars

----------------------------------------------------------------------------
(* Properties of the stored session *)

Created == Exists(SID)
Doc == store[SID]

\* executions running for the session
SessionExecs == {i \in DOMAIN execs : execs[i].sid = SID}

\* C1: the stored status never moves backward in the order
\* pending < refining < processing < completed < email_sent < failed
\* (failed is only entered).
C1_StatusNeverMovesBackward ==
  [][(Created /\ Created') => Rank(Doc.status') >= Rank(Doc.status)]_vars

\* C2: email_sent and failed are terminal: once the stored status is one of
\* them, no later step changes it.
C2_TerminalStatusesAreFinal ==
  [][(Created /\ Doc.status \in {"email_sent", "failed"})
       => Doc.status' = Doc.status]_vars

\* C3: the research routine is executed at most once per session.
C3_AtMostOneExecution == launched[SID] <= 1

ProviderFailed(e) == e.openai = "err" \/ e.gemini = "err"

FailedCallMessages(e) ==
  (IF e.openai = "err" THEN {OpenAIError} ELSE {}) \cup
  (IF e.gemini = "err" THEN {GeminiError} ELSE {})

\* C4: an execution one of whose provider calls failed never goes on to the
\* completed write or the report stage, and its one store write sets status
\* failed with error equal to the message of a call of that execution that
\* failed, leaving openaiResult and geminiResult as they were.
C4_ProviderFailureIsAllOrNothing ==
  [][\A i \in SessionExecs :
       ProviderFailed(execs[i]) =>
         /\ i \in DOMAIN execs' => execs'[i].pc = "write_failed"
         /\ i \notin DOMAIN execs' =>
              /\ Doc.status' = "failed"
              /\ \E m \in FailedCallMessages(execs[i]) : Doc.error' = Some(m)
              /\ Doc.openaiResult' = Doc.openaiResult
              /\ Doc.geminiResult' = Doc.geminiResult]_vars

\* C4 witness: the only execution ran the one-by-one routine, its second
\* provider call failed after the first had succeeded, the failure is
\* recorded and no result is stored.
C4_Witness ==
  /\ Created
  /\ routine = "sequential"
  /\ launched[SID] = 1
  /\ SessionExecs = {}
  /\ Doc.status = "failed"
  /\ Doc.error = Some(GeminiError)
  /\ ~Present(Doc.openaiResult)
  /\ ~Present(Doc.geminiResult)

\* C5: status completed or email_sent implies both results are present.
C5_CompletedHasBothResults ==
  (Created /\ Doc.status \in {"completed", "email_sent"})
    => (Present(Doc.openaiResult) /\ Present(Doc.geminiResult))

\* C5 witness: the session reached email_sent.
C5_Witness ==
  /\ Created
  /\ Doc.status = "email_sent"
  /\ Present(Doc.openaiResult)
  /\ Present(Doc.geminiResult)

\* C6: the result fields change only in a step that also stores status
\* completed, and they are both present or both absent in every state.
C6_ResultsWrittenWithCompleted ==
  /\ [](Created => (Present(Doc.openaiResult) <=> Present(Doc.geminiResult)))
  /\ [][(Created /\ (Doc.openaiResult' # Doc.openaiResult
                      \/ Doc.geminiResult' # Doc.geminiResult))
          => (Doc.status' = "completed"
              /\ Present(Doc.openaiResult') /\ Present(Doc.geminiResult')
              /\ Doc.completedAt' = Some(clock))]_vars

\* C6 witness: the completed write has just stored both results.
C6_Witness ==
  /\ Created
  /\ Doc.status = "completed"
  /\ Present(Doc.openaiResult)
  /\ Present(Doc.geminiResult)
  /\ \E i \in SessionExecs : execs[i].pc = "report"

\* C7: status failed implies the error field is present.
C7_FailedHasError ==
  (Created /\ Doc.status = "failed") => Present(Doc.error)

\* C7 witness: a failure of the report stage has been recorded.
C7_Witness ==
  /\ Created
  /\ Doc.status = "failed"
  /\ Doc.error \in {Some(ReportError), Some(RenderError)}

\* C8: error present implies status failed.
C8_ErrorOnlyWhenFailed ==
  (Created /\ Present(Doc.error)) => Doc.status = "failed"

\* C9: once refinedPrompt is stored, no step changes it.
C9_RefinedPromptImmutable ==
  [][(Created /\ Present(Doc.refinedPrompt))
       => Doc.refinedPrompt' = Doc.refinedPrompt]_vars

\* C10: once a question has a stored answer, no step overwrites it.
C10_AnswerSetAtMostOnce ==
  [][Created =>
       \A k \in DOMAIN Doc.refinementQuestions :
         Present(Doc.refinementQuestions[k].answer) =>
           Doc.refinementQuestions'[k].answer
             = Doc.refinementQuestions[k].answer]_vars

\* C11: concurrent submit-answer writes merge: no step removes an answer that
\* is stored, so after two requests for two different questions have both
\* written, both answers are in the record.
C11_ConcurrentAnswersAreMerged ==
  [][Created =>
       \A k \in DOMAIN Doc.refinementQuestions :
         Present(Doc.refinementQuestions[k].answer) =>
           Present(Doc.refinementQuestions'[k].answer)]_vars

\* C12: after creation exactly one of {status is refining, refinedPrompt is
\* set} holds.
C12_RefiningXorRefinedPrompt ==
  Created => ((Doc.status = "refining") <=> ~Present(Doc.refinedPrompt))

\* C13: when the planner returns zero questions, the step that creates the
\* session stores status processing and refinedPrompt equal to initialPrompt
\* and launches a research execution for the session.
C13_ZeroQuestionsLaunchResearch ==
  [][(~Created /\ Created' /\ Len(Doc.refinementQuestions') = 0) =>
       /\ Doc.status' = "processing"
       /\ Doc.refinedPrompt' = Some(Doc.initialPrompt')
       /\ launched'[SID] = launched[SID] + 1]_vars

\* q is the first question of qs, in list order, that has no answer
FirstUnanswered(qs, q) ==
  \E k \in 1..Len(qs) :
    /\ q = qs[k]
    /\ ~Present(qs[k].answer)
    /\ \A j \in 1..(k - 1) : Present(qs[j].answer)

\* C14: when a submit-answer on a refining session stores its answers and a
\* question is still unanswered, the stored status stays refining, the
\* response has status refining and no refinedPrompt, and its nextQuestion
\* is the first stored question in original order without an answer.
C14_MoreQuestionsRemain ==
  [][\A r \in DOMAIN subs :
       (/\ subs[r].pc = "write_answers"
        /\ (r \notin DOMAIN subs' \/ subs'[r].pc # "write_answers")
        /\ Doc.status = "refining"
        /\ \E k \in DOMAIN Doc.refinementQuestions' :
              ~Present(Doc.refinementQuestions'[k].answer))
       => /\ r \notin DOMAIN subs'
          /\ Doc.status' = "refining"
          /\ resp'.code = 200
          /\ resp'.status = Some("refining")
          /\ ~Present(resp'.refinedPrompt)
          /\ \E q \in resp'.nextQuestion :
                FirstUnanswered(Doc.refinementQuestions', q)]_vars

\* C14 witness: of two questions the first is answered, and the response
\* names the second as the next one.
C14_Witness ==
  /\ Created
  /\ subs = <<>>
  /\ Doc.status = "refining"
  /\ Len(Doc.refinementQuestions) = 2
  /\ Present(Doc.refinementQuestions[1].answer)
  /\ ~Present(Doc.refinementQuestions[2].answer)
  /\ resp.status = Some("refining")
  /\ resp.nextQuestion = Some(Doc.refinementQuestions[2])

\* C15: a submit-answer response carries refinedPrompt exactly when the
\* request wrote status processing; that response has status processing and
\* its refinedPrompt is the one stored with status processing.
C15_RefinedPromptOnlyOnTransition ==
  [][\A r \in DOMAIN subs :
       r \notin DOMAIN subs' =>
         /\ Present(resp'.refinedPrompt) <=> subs[r].pc = "write_processing"
         /\ subs[r].pc = "write_processing" =>
              /\ resp'.status = Some("processing")
              /\ Doc.status' = "processing"
              /\ resp'.refinedPrompt = Doc.refinedPrompt']_vars

\* C15 witness: the second of two answers moved the session to processing
\* and the response returned the stored refinedPrompt.
C15_Witness ==
  /\ Created
  /\ Len(Doc.refinementQuestions) = 2
  /\ submitted = 2
  /\ subs = <<>>
  /\ Doc.status = "processing"
  /\ resp.status = Some("processing")
  /\ Present(resp.refinedPrompt)
  /\ resp.refinedPrompt = Doc.refinedPrompt

\* r is prompt p followed by an 'Additional context:' section holding one
\* 'Q: <question>' / 'A: <answer>' pair per question of qs, in list order;
\* with no question r is p itself
IsComposition(r, p, qs) ==
  IF Len(qs) = 0 THEN r = p
  ELSE /\ Len(r) = Len(p) + 5 * Len(qs)
       /\ SubSeq(r, 1, Len(p)) = p
       /\ r[Len(p) + 1] = "\n\nAdditional context:\n"
       /\ \A k \in 1..Len(qs) :
            LET o == Len(p) + 1 + 5 * (k - 1)
            IN /\ r[o + 1] = "Q: "
               /\ r[o + 2] = qs[k].question
               /\ r[o + 3] = "\nA: "
               /\ qs[k].answer = Some(r[o + 4])
               /\ k < Len(qs) => r[o + 5] = "\n\n"

\* C16: the refined prompt a submit-answer stores is the composition of the
\* initial prompt and the answered questions: the prompt unchanged for zero
\* questions, otherwise the prompt, the 'Additional context:' header and
\* exactly one Q/A pair per question in original order.
C16_ComposedPromptShape ==
  [][\A r \in DOMAIN subs :
       (subs[r].pc = "write_processing" /\ r \notin DOMAIN subs') =>
         \E v \in Doc.refinedPrompt' :
           IsComposition(v, Doc.initialPrompt, subs[r].updatedQuestions)]_vars

\* stored questions that have an answer
Answered == {k \in DOMAIN Doc.refinementQuestions :
               Present(Doc.refinementQuestions[k].answer)}

\* C17: when the N questions are answered once each, one request after
\* another, in any order: every request stores exactly the one answer it
\* carries, the questions keep the planner's order, the session reaches
\* processing exactly when the N-th request is done, and the stored
\* refinedPrompt is then the composition of the stored answers in planner
\* order, so it does not depend on the order of submission.
C17_SubmissionOrderIrrelevant ==
  /\ [](Created =>
         LET qs == Doc.refinementQuestions
             done == submitted = Len(qs) /\ subs = <<>>
         IN /\ [k \in 1..Len(qs) |-> [qs[k] EXCEPT !.answer = Absent]]
                 = PlannedQuestions(Len(qs))
            /\ subs = <<>> => Cardinality(Answered) = submitted
            /\ Present(Doc.refinedPrompt) <=> done
            /\ (Doc.status = "refining") <=> ~done
            /\ \A v \in Doc.refinedPrompt :
                 IsComposition(v, Doc.initialPrompt, qs))
  /\ [][\A r \in DOMAIN subs :
          (subs[r].pc = "write_answers"
           /\ (r \notin DOMAIN subs' \/ subs'[r].pc # "write_answers")) =>
            \E k \in DOMAIN Doc.refinementQuestions :
              /\ ~Present(Doc.refinementQuestions[k].answer)
              /\ Present(Doc.refinementQuestions'[k].answer)
              /\ \A j \in DOMAIN Doc.refinementQuestions \ {k} :
                   Doc.refinementQuestions'[j] = Doc.refinementQuestions[j]]_vars

\* C17 witness: two questions got different answers in two requests and the
\* second request moved the session to processing.
C17_Witness ==
  /\ Created
  /\ Len(Doc.refinementQuestions) = 2
  /\ submitted = 2
  /\ subs = <<>>
  /\ Doc.refinementQuestions[1].answer = Some("a2")
  /\ Doc.refinementQuestions[2].answer = Some("a1")
  /\ Doc.status = "processing"
  /\ Present(Doc.refinedPrompt)

\* C18: both provider calls of an execution are issued before either has
\* finished: whenever a call is issued, the other call of the execution is
\* in flight.
C18_BothCallsIssuedTogether ==
  [][\A i \in DOMAIN execs \cap DOMAIN execs' :
       /\ (execs[i].gemini = "idle" /\ execs'[i].gemini = "inflight")
            => execs'[i].openai = "inflight"
       /\ (execs[i].openai = "idle" /\ execs'[i].openai = "inflight")
            => execs'[i].gemini = "inflight"]_vars

\* C19: no execution writes completed or failed for the research stage
\* while one of its two provider calls is still in flight.
C19_StageWaitsForBothCalls ==
  [][\A i \in SessionExecs :
       (/\ execs[i].pc \in {"write_completed", "write_failed"}
        /\ (i \notin DOMAIN execs' \/ execs'[i].pc # execs[i].pc)
        /\ store' # store)
       => (execs[i].openai # "inflight" /\ execs[i].gemini # "inflight")]_vars

\* the report stage of execution e failed and e is about to record it
ReportFailed(e) ==
  e.pc = "write_failed" /\ e.error \in {Some(ReportError), Some(RenderError)}

\* C20: when report rendering or delivery failed after the completed write,
\* the execution's next write sets status failed and error to the failure
\* message, and openaiResult, geminiResult and completedAt stay present and
\* keep their values.
C20_ReportFailureKeepsResults ==
  [][\A i \in SessionExecs :
       (ReportFailed(execs[i]) /\ i \notin DOMAIN execs') =>
         /\ Doc.status' = "failed"
         /\ Doc.error' = execs[i].error
         /\ Present(Doc.openaiResult') /\ Present(Doc.geminiResult')
         /\ Present(Doc.completedAt')
         /\ Doc.openaiResult' = Doc.openaiResult
         /\ Doc.geminiResult' = Doc.geminiResult
         /\ Doc.completedAt' = Doc.completedAt]_vars

\* C20 witness: delivery failed after completion; the failure is recorded
\* and the results of the completed write are still stored.
C20_Witness ==
  /\ Created
  /\ launched[SID] = 1
  /\ SessionExecs = {}
  /\ Doc.status = "failed"
  /\ Doc.error = Some(ReportError)
  /\ Present(Doc.openaiResult)
  /\ Present(Doc.geminiResult)
  /\ Present(Doc.completedAt)

C22_EmailSentOnlyAfterDelivery ==
  (Created /\ Doc.status = "email_sent") => delivered >= 1

\* C22 witness: exactly one report was accepted and email_sent is stored.
C22_Witness ==
  /\ Created
  /\ Doc.status = "email_sent"
  /\ delivered = 1
  /\ SessionExecs = {}

\* C23: once completedAt is stored no step changes it, and once emailSentAt
\* is stored no step changes it.
C23_TimestampsWrittenOnce ==
  [][Created =>
       /\ Present(Doc.completedAt) => Doc.completedAt' = Doc.completedAt
       /\ Present(Doc.emailSentAt) => Doc.emailSentAt' = Doc.emailSentAt]_vars

\* C30: when the planner's provider call fails, start-research still
\* answers 200 and the step creates the session with an empty
\* refinementQuestions list and status processing.
C30_PlannerFailsOpen ==
  [][(~Created /\ Created' /\ startResp'.planner = "error") =>
       /\ Doc.refinementQuestions' = <<>>
       /\ Doc.status' = "processing"
       /\ startResp'.code = 200
       /\ startResp'.status = "processing"]_vars

\* C30 witness: the planner failed and the session exists in processing
\* with no questions.
C30_Witness ==
  /\ Created
  /\ startResp.planner = "error"
  /\ startResp.code = 200
  /\ Doc.refinementQuestions = <<>>
  /\ Doc.status = "processing"

\* C28: when the update recording a failure rejects, the routine returns
\* normally (the rejection never leaves performResearch) and the step
\* leaves the stored session, status and results included, as it was.
C28_FailureWriteFailureIsSwallowed ==
  /\ [](\A i \in DOMAIN execs : execs[i].pc # "unhandled_rejection")
  /\ [][\A i \in SessionExecs :
          (execs[i].pc = "write_failed" /\ clock' = clock
           /\ (i \notin DOMAIN execs' \/ execs'[i].pc # "write_failed"))
          => (i \notin DOMAIN execs' /\ store' = store)]_vars

\* the poll loop gave up after maxPolls rounds
PollTimedOut == poll.pc = "returned" /\ poll.count = MaxPolls

\* the poll loop ended on an interaction reported failed or cancelled
PollSawFailure ==
  poll.pc \in {"returned", "threw"} /\ poll.last.status \in {"failed", "cancelled"}

\* C26: when the polled interaction reports failed or cancelled, the
\* adapter raises an error, and the session does not reach completed or
\* email_sent.
C26_FailedInteractionFailsSession ==
  PollSawFailure =>
    /\ poll.pc = "threw"
    /\ Created => Doc.status \notin {"completed", "email_sent"}

\* C27: the poll loop makes at most maxPolls wait-and-poll rounds; when the
\* rounds are used up it has returned, with a non-empty text, instead of
\* raising an error or polling on; and once started it always ends.
C27_PollLoopTerminates ==
  /\ [](poll.count <= MaxPolls)
  /\ [](poll.count = MaxPolls => poll.pc = "returned")
  /\ [](poll.pc = "returned" => Len(poll.result) > 0)
  /\ (poll.pc \in {"getting", "waiting"}) ~> (poll.pc \in {"returned", "threw"})

\* C27 witness: the interaction was in progress at every poll, the rounds
\* ran out, and the placeholder reached the execution as the Gemini result.
C27_Witness ==
  /\ PollTimedOut
  /\ poll.last.status = "in_progress"
  /\ poll.result = NoResponseText
  /\ poll.exec \in DOMAIN execs
  /\ execs[poll.exec].geminiResult = Some(NoResponseText)

\* C29: an execution enters the report pipeline only in the step in which
\* its completed update stored both results, and never after one of its
\* provider calls failed or timed out; a report is delivered only by an
\* execution in the report pipeline.
C29_ReportOnlyAfterCompleted ==
  /\ [](\A i \in DOMAIN execs :
          execs[i].pc \in {"report", "write_email_sent"} =>
            /\ execs[i].openai = "ok" /\ execs[i].gemini = "ok"
            /\ ~(poll.exec = i /\ PollTimedOut))
  /\ [][(\A i \in DOMAIN execs' :
            (execs'[i].pc = "report"
             /\ (i \notin DOMAIN execs \/ execs[i].pc # "report")) =>
              (/\ i \in DOMAIN execs
               /\ execs[i].pc = "write_completed"
               /\ Doc.status' = "completed"
               /\ Doc.openaiResult' = execs[i].openaiResult
               /\ Doc.geminiResult' = execs[i].geminiResult
               /\ Doc.completedAt' = Some(clock)))
         /\ (delivered' # delivered =>
               \E i \in DOMAIN execs : execs[i].pc = "report")]_vars

\* the error the process endpoint's routine records for the call outcomes
\* of execution e
ProcessRoutineError(e) ==
  IF e.openai = "err" THEN Some(OpenAIError)
  ELSE IF e.gemini = "err" THEN Some(GeminiError)
  ELSE e.error

\* C24: the routine run in-process is the routine of the process-research
\* endpoint: an in-process execution whose provider calls have all settled
\* records on failure the error the endpoint's routine records for the
\* same outcomes.
C24_SameRoutineBothStrategies ==
  [][\A i \in SessionExecs :
       (/\ execs[i].origin # "process"
        /\ execs[i].pc = "write_failed"
        /\ execs[i].openai # "inflight" /\ execs[i].gemini # "inflight"
        /\ i \notin DOMAIN execs')
       => Doc.error' = ProcessRoutineError(execs[i])]_vars

\* C25: a failed dispatch to the process-research endpoint changes nothing
\* but the dispatch itself and is not repeated; the request that fired it
\* has answered processing; and while no execution has been launched for
\* the session its stored status stays processing.
C25_DispatchFailureLeavesProcessing ==
  /\ [][dispatch.failed' # dispatch.failed =>
          /\ store' = store /\ execs' = execs /\ launched' = launched
          /\ resp' = resp
          /\ \E d \in DOMAIN dispatch.inflight :
               dispatch.inflight' = Remove(dispatch.inflight, d)]_vars
  /\ [][dispatch.sent' # dispatch.sent =>
          (resp'.code = 200 /\ resp'.status = Some("processing"))]_vars
  /\ [](Created /\ launched[SID] = 0 /\ Present(Doc.refinedPrompt)
         => Doc.status = "processing")

\* C25 witness: the only dispatch failed; the response said processing and
\* the session is in processing with no execution launched.
C25_Witness ==
  /\ Created
  /\ dispatch.sent = 1 /\ dispatch.failed = 1
  /\ dispatch.inflight = <<>>
  /\ subs = <<>>
  /\ launched[SID] = 0
  /\ Doc.status = "processing"
  /\ resp.status = Some("processing")

\* the step receives a request
Receives == req'.n # req.n

ClientError(code) == code \in 400..499

\* every token of the text is white space
Blank(text) == \A k \in 1..Len(text) : text[k] \in Whitespace

\* a start-research request without userId or userEmail, or whose prompt is
\* missing, empty or white space only
InvalidStart(r) ==
  /\ r.op = "start"
  /\ \/ r.userId = Absent \/ r.userEmail = Absent
     \/ r.prompt = Absent
     \/ \E p \in r.prompt : Blank(p)

\* a submit-answer request without sessionId, questionId or answer
InvalidSubmit(r) ==
  /\ r.op = "submit"
  /\ (r.sessionId = Absent \/ r.questionId = Absent \/ r.answer = Absent)

\* the step writes nothing, consumes no planner outcome, issues no provider
\* call and starts no handler or execution
NoSideEffect ==
  /\ store' = store /\ clock' = clock
  /\ execs' = execs /\ launched' = launched
  /\ subs' = subs /\ dispatch' = dispatch /\ poll' = poll
  /\ delivered' = delivered

\* C31: a start-research request with missing userId or userEmail or with an
\* empty or white-space-only prompt, and a submit-answer request with missing
\* sessionId, questionId or answer, is answered with a client error in a
\* step that writes nothing to the store, calls neither the planner nor a
\* provider and launches no research.
C31_InvalidInputHasNoSideEffect ==
  [][(Receives /\ (InvalidStart(req') \/ InvalidSubmit(req')))
       => /\ ClientError(req'.code)
          /\ NoSideEffect
          /\ req'.op = "start" => startResp'.planner = ""]_vars

\* C31 witness: a start-research request with a white-space-only prompt was
\* rejected, then a submit-answer request without an answer was rejected,
\* and no session exists.
C31_Witness ==
  /\ startResp.code = 400
  /\ req.op = "submit"
  /\ req.sessionId = Some(SID)
  /\ req.questionId = Some("q1")
  /\ req.answer = Absent
  /\ req.code = 400
  /\ ~Created
  /\ execs = <<>>

\* a submit-answer or fetch-results request naming a session that does not
\* exist when the request is received
NamesUnknownSession(r) ==
  /\ r.op \in {"submit", "fetch"}
  /\ \E s \in r.sessionId : s \notin DOMAIN store

\* C32: a submit-answer or fetch-results request whose sessionId names no
\* session is answered with a client error in a step without side effect,
\* and no fetch-results request changes anything but the response.
C32_UnknownSessionHasNoSideEffect ==
  /\ [][(Receives /\ NamesUnknownSession(req'))
          => (ClientError(req'.code) /\ NoSideEffect)]_vars
  /\ [][(Receives /\ req'.op = "fetch")
          => (NoSideEffect /\ resp' = resp /\ submitted' = submitted)]_vars

\* C32 witness: with the session stored, a complete submit-answer request
\* for another session id was answered 404.
C32_Witness ==
  /\ DOMAIN store = {SID}
  /\ req.op = "submit"
  /\ req.sessionId = Some(GhostSID)
  /\ req.questionId = Some("q1")
  /\ req.answer = Some("a1")
  /\ req.code = 404
  /\ resp.code = 404
  /\ launched[GhostSID] = 0

\* the ids and texts of a question list, in order
Skeleton(qs) == [k \in 1..Len(qs) |-> <<qs[k].id, qs[k].question>>]

\* C33: after creation no step adds, removes or reorders questions or
\* changes a question's id or text; only answers change.
C33_QuestionListIsFixed ==
  [][(Created /\ Created')
       => Skeleton(Doc.refinementQuestions') = Skeleton(Doc.refinementQuestions)]_vars

\* C33 witness: two requests have been served on a list of two questions,
\* the first question has an answer, the second is the next one asked, and
\* the list still has the planner's ids and texts.
C33_Witness ==
  /\ Created
  /\ Len(Doc.refinementQuestions) = 2
  /\ Present(Doc.refinementQuestions[1].answer)
  /\ Skeleton(Doc.refinementQuestions) = Skeleton(PlannedQuestions(2))
  /\ submitted = 2
  /\ subs = <<>>
  /\ resp.nextQuestion = Some(Doc.refinementQuestions[2])

\* C34: id, userId, userEmail and initialPrompt of the session are the same
\* after every step that follows its creation.
C34_IdentityFieldsAreImmutable ==
  [][(Created /\ Created')
       => /\ Doc.id' = Doc.id
          /\ Doc.userId' = Doc.userId
          /\ Doc.userEmail' = Doc.userEmail
          /\ Doc.initialPrompt' = Doc.initialPrompt]_vars

\* C34 witness: the session went through answers, processing, completed and
\* email_sent writes and still has the identity it was created with.
C34_Witness ==
  /\ Created
  /\ Doc.status = "email_sent"
  /\ Len(Doc.refinementQuestions) = 1
  /\ Doc.refinedPrompt # Some(Doc.initialPrompt)
  /\ Present(Doc.refinedPrompt)
  /\ Doc.id = SID /\ Doc.userId = "u1" /\ Doc.userEmail = "u1@mail"
  /\ Doc.initialPrompt \in Prompts

Settled == Created /\ Doc.status \in {"email_sent", "failed"}

\* C35: when every step of an execution returns and store writes succeed,
\* a session for which performResearch has been called reaches email_sent
\* or failed and stays there; it does not remain processing or completed.
C35_LaunchedSessionSettles ==
  (launched[SID] > 0) ~> [](Settled)

\* C35 witness: the execution went through the whole poll loop, wrote
\* completed, failed in the report stage, and has recorded the failure.
C35_Witness ==
  /\ launched[SID] = 1
  /\ SessionExecs = {}
  /\ PollTimedOut
  /\ Doc.status = "failed"
  /\ Doc.error = Some(ReportError)
  /\ Present(Doc.completedAt)

\* the executions launched by the step
NewExecs == DOMAIN execs' \ DOMAIN execs

\* C36: no provider call is in flight for a session whose status is
\* refining; an execution launched by the start or submit handler is
\* launched by a request that found every question answered with a
\* non-empty answer, in a state where the store holds status processing and
\* the execution's prompt as refinedPrompt.
C36_NoResearchWhileRefining ==
  /\ [](Created /\ Doc.status = "refining" =>
          \A i \in SessionExecs :
             execs[i].openai # "inflight" /\ execs[i].gemini # "inflight")
  /\ [][\A i \in NewExecs :
          (execs'[i].sid = SID /\ execs'[i].origin \in {"start", "submit"}) =>
            /\ Doc.status' = "processing"
            /\ Doc.refinedPrompt' = Some(execs'[i].prompt)
            /\ execs'[i].origin = "start" => Doc.refinementQuestions' = <<>>
            /\ execs'[i].origin = "submit" =>
                  \E r \in DOMAIN subs \ DOMAIN subs' :
                    \A k \in 1..Len(subs[r].updatedQuestions) :
                      /\ Present(subs[r].updatedQuestions[k].answer)
                      /\ subs[r].updatedQuestions[k].answer # Some("")]_vars

\* C37: the Notifier accepts at most one report email for the session
\* (an execution for an id without a document never reaches the report
\* stage, so every delivery counted is the session's).
C37_AtMostOneDelivery == delivered <= 1

\* C38: an execution whose send succeeded leaves the email_sent write only
\* by finishing with the session in email_sent.
C38_DeliveredEndsEmailSent ==
  [][\A i \in SessionExecs :
       (/\ execs[i].pc = "write_email_sent"
        /\ (i \notin DOMAIN execs' \/ execs'[i].pc # "write_email_sent"))
       => (i \notin DOMAIN execs' /\ Doc.status' = "email_sent")]_vars

\* C39: the process-research endpoint starts the routine only for a session
\* that exists and whose stored status is processing.
C39_ProcessOnlyWhenProcessing ==
  [][\A i \in NewExecs :
       execs'[i].origin = "process" =>
         (Exists(execs'[i].sid)
          /\ store[execs'[i].sid].status = "processing")]_vars

\* C40: with status completed or email_sent, both stored results are the
\* providers' texts for the stored refinedPrompt.
C40_ResultsBelongToRefinedPrompt ==
  (Created /\ Doc.status \in {"completed", "email_sent"}) =>
    \E p \in Doc.refinedPrompt :
      /\ Doc.openaiResult = Some(OpenAIText(p))
      /\ Doc.geminiResult = Some(GeminiText(p))

====
